---- MODULE Spec2Model ----
(***************************************************************************)
(* Model of factory/alchemy.py: the option checks of SQLAlchemyOptions and *)
(* the persistence dispatch of SQLAlchemyModelFactory._create, with its    *)
(* helpers find_existing, update_existing and attr_dict.                   *)
(*                                                                         *)
(* One behaviour is the life of one factory class and the session it is    *)
(* given: the class statement runs (DefineFactory), then _create is called *)
(* any number of times (Create).                                           *)
(*                                                                         *)
(* Values.  A column value is a number; 0 stands for a falsy Python value  *)
(* that is still a value of the column ('' or 0), every other number for a *)
(* truthy one.  An object's attribute dictionary (__dict__) is a function  *)
(* on Attrs.                                                               *)
(*                                                                         *)
(* The session is the collaborator _create calls: here it is the ordered   *)
(* list of the rows it holds (store), and the calls _create makes on it    *)
(* are logged, in order, in last.ops.  Its calls succeed, except that a    *)
(* flush or commit of rows that break a unique constraint of the table     *)
(* raises IntegrityError and rolls the call's changes back; _create        *)
(* catches nothing, so the error is what the call raises.  Instances are   *)
(* built without a primary key, so merge of a new instance inserts it.     *)
(***************************************************************************)
EXTENDS Integers, Sequences, FiniteSets, TLC

\* Bounds of the model.
MaxRows == 2
MaxName == 2
MaxEmail == 1

VARIABLES decl, meta, model_cls, store, last

vars == <<decl, meta, model_cls, store, last>>

\* ------------------------------------------------------------ constants

None == "<None>"

SESSION_PERSISTENCE_COMMIT == "commit"

SESSION_PERSISTENCE_FLUSH == "flush"

SESSION_PERSISTENCE_MERGE == "merge"

SESSION_PERSISTENCE_CHECK_AND_MERGE == "check"

SESSION_PERSISTENCE_GET_OR_ADD == "get"

SESSION_PERSISTENCE_ADD == "add"

VALID_SESSION_PERSISTENCE_TYPES ==
    << None, SESSION_PERSISTENCE_COMMIT, SESSION_PERSISTENCE_FLUSH,
       SESSION_PERSISTENCE_MERGE, SESSION_PERSISTENCE_CHECK_AND_MERGE,
       SESSION_PERSISTENCE_GET_OR_ADD, SESSION_PERSISTENCE_ADD >>

\* Python's `x in list`.
InList(x, list) == \E i \in 1..Len(list) : list[i] = x

\* ------------------------------------------------------------ the inputs

\* Values a Meta declaration may give sqlalchemy_session_persistence.
PersistenceValues ==
    { None, "commit", "flush", "merge", "check", "get", "add",
      "bogus", "Commit", "None" }

Declarations ==
    [ sqlalchemy_session_persistence : PersistenceValues,
      force_flush : BOOLEAN,
      sqlalchemy_update_existing : BOOLEAN,
      sqlalchemy_session : {None, "session"} ]

Cols == {"name", "email"}

SA_STATE == "_sa_instance_state"

Attrs == Cols \cup {SA_STATE}

ColVals(c) == IF c = "email" THEN 0..MaxEmail ELSE 0..MaxName

\* Constructor keyword arguments of the model.
Args == { a \in [Cols -> 0..(MaxName + MaxEmail)] : \A c \in Cols : a[c] \in ColVals(c) }

Constraint(kind, columns) == [kind |-> kind, columns |-> columns]

UniqueEmail == Constraint("UniqueConstraint", <<"email">>)

UniqueName == Constraint("UniqueConstraint", <<"name">>)

UniqueEmailName == Constraint("UniqueConstraint", <<"email", "name">>)

CheckName == Constraint("CheckConstraint", <<"name">>)

\* The model classes.  declared: the table's constraints in the order the
\* schema declares them.  constraints: the order in which iterating
\* model_cls.__table__.constraints yields them; Table.constraints is a set, so
\* any order of the declared constraints can come out.  attributes: the column
\* keys that are also the name of the column's mapped attribute, on the class
\* and on its instances (the last class maps its email column under another
\* name).  An instance's dictionary is written by column key throughout.
ModelClasses ==
    { [declared |-> <<UniqueEmail, CheckName>>,
       constraints |-> <<UniqueEmail, CheckName>>, attributes |-> Cols],
      [declared |-> <<UniqueEmail, CheckName>>,
       constraints |-> <<CheckName, UniqueEmail>>, attributes |-> Cols],
      [declared |-> <<UniqueEmail, UniqueName>>,
       constraints |-> <<UniqueEmail, UniqueName>>, attributes |-> Cols],
      [declared |-> <<UniqueEmail, UniqueName>>,
       constraints |-> <<UniqueName, UniqueEmail>>, attributes |-> Cols],
      [declared |-> <<UniqueEmailName>>,
       constraints |-> <<UniqueEmailName>>, attributes |-> Cols],
      [declared |-> <<UniqueEmail, CheckName>>,
       constraints |-> <<UniqueEmail, CheckName>>, attributes |-> {"name"}] }

\* ------------------------------------------------------------ references

NoneRef == [kind |-> "none", idx |-> 0]

\* The instance _create constructs.
ObjRef == [kind |-> "obj", idx |-> 0]

\* The object that is row i of the session.
RowRef(i) == [kind |-> "row", idx |-> i]

Op(op, col, val, arg, res) ==
    [op |-> op, col |-> col, val |-> val, arg |-> arg, res |-> res]

\* Python truthiness of a column value.
Truthy(v) == v # 0

\* getattr(o, k, None) on an attribute dictionary.
getattr(o, k) == IF k \in DOMAIN o THEN o[k] ELSE 0

\* getattr(obj, col.key, None), line 98: None unless the column's attribute
\* goes by the column's key.
getattr_key(obj, cls, col) ==
    IF col \in cls.attributes THEN getattr(obj, col) ELSE 0

\* getattr(model_cls, col.key, None), line 100, is truthy.
matching_col(cls, col) == col \in cls.attributes

\* ------------------------------------------------------------ the options

\* A faulty variant of the check below: every value is accepted.
_check_sqlalchemy_session_persistence_Lax(cls_meta, value) ==
    [error |-> None, meta |-> None, allowed |-> <<>>, got |-> None]

\* SQLAlchemyOptions._check_sqlalchemy_session_persistence: what it raises
\* (error = None: it returns), with the class, the allowed values and the
\* value its message names.
_check_sqlalchemy_session_persistence(cls_meta, value) ==
    IF ~InList(value, VALID_SESSION_PERSISTENCE_TYPES)
    THEN [error |-> "TypeError", meta |-> cls_meta,
          allowed |-> VALID_SESSION_PERSISTENCE_TYPES, got |-> value]
    ELSE [error |-> None, meta |-> None, allowed |-> <<>>, got |-> None]

\* SQLAlchemyOptions._check_force_flush: whether it warns (DeprecationWarning).
_check_force_flush(cls_meta, value) == value

\* ------------------------------------------------------------ the session

\* A session during one call: the rows it holds, the calls made on it, the
\* rows it held when the call began, the constraints its table declares and
\* the error its last call raised (None: none).
Session(rows, ops, begin, schema, error) ==
    [store |-> rows, ops |-> ops, begin |-> begin, schema |-> schema,
     error |-> error]

\* The session a call starts with.
NewSession(rows, cls) == Session(rows, <<>>, rows, cls.declared, None)

Logged(s, rows, op) == Session(rows, Append(s.ops, op), s.begin, s.schema, None)

\* The rows satisfy the table's unique constraints: no two of them agree on
\* all the columns of one constraint.
IntegrityOK(rows, schema) ==
    \A n \in 1..Len(schema) :
        schema[n].kind = "UniqueConstraint"
        => \A i, j \in 1..Len(rows) :
             i # j => \E k \in 1..Len(schema[n].columns) :
                        rows[i][schema[n].columns[k]] # rows[j][schema[n].columns[k]]

\* session.add(obj): obj itself becomes the next row, pending.
session_add(s, obj) ==
    Logged(s, Append(s.store, obj), Op("add", "", 0, ObjRef, NoneRef))

\* session.merge(obj) of the transient obj: its state is copied into a new
\* instance, which the session holds and merge returns; obj stays outside.
session_merge_new(s, obj) ==
    Logged(s, Append(s.store, obj),
           Op("merge", "", 0, ObjRef, RowRef(Len(s.store) + 1)))

\* session.merge(existing) of row i, which the session already holds: merge
\* returns that same object.
session_merge_row(s, i) ==
    Logged(s, s.store, Op("merge", "", 0, RowRef(i), RowRef(i)))

\* Writing the rows out: the database refuses rows that break a unique
\* constraint (IntegrityError), and the session then rolls back to the rows
\* the call began with.
written(s, op) ==
    IF IntegrityOK(s.store, s.schema)
    THEN Logged(s, s.store, op)
    ELSE Session(s.begin, Append(s.ops, op), s.begin, s.schema, "IntegrityError")

session_flush(s) == written(s, Op("flush", "", 0, NoneRef, NoneRef))

session_commit(s) == written(s, Op("commit", "", 0, NoneRef, NoneRef))

\* The rows session.query(model_cls).filter(col == v) selects; .first() is
\* one of them (the query states no order) or None.
query_filter(rows, col, v) == { i \in 1..Len(rows) : rows[i][col] = v }

QueryOp(col, v, i) ==
    Op("query", col, v, NoneRef, IF i = 0 THEN NoneRef ELSE RowRef(i))

\* ------------------------------------------------------------ the helpers

startswith_sa(k) == k \in {SA_STATE}

\* attr_dict: the instance's __dict__ without the '_sa' keys.
attr_dict(instance) ==
    [ k \in { k \in DOMAIN instance : ~startswith_sa(k) } |-> instance[k] ]

\* find_existing, lines 92-95: the UniqueConstraints, in iteration order.
unique_constraints(cls) ==
    SelectSeq(cls.constraints, LAMBDA c : c.kind = "UniqueConstraint")

RECURSIVE Flatten(_)
\* The columns of the constraints, constraint after constraint.
Flatten(constraints) ==
    IF constraints = <<>> THEN <<>>
    ELSE Head(constraints).columns \o Flatten(Tail(constraints))

\* A faulty variant of the condition below: a falsy value is queried too.
queries_column_Always(cls, obj, col) == matching_col(cls, col)

\* find_existing, lines 98-101: whether the loop queries this column.
queries_column(cls, obj, col) ==
    /\ Truthy(getattr_key(obj, cls, col))
    /\ matching_col(cls, col)

RECURSIVE scan(_, _, _, _)
\* find_existing, lines 96-105, over the columns still to scan: every way
\* the loop can end, as [existing (a row, 0: None), queries (those made)].
scan(rows, obj, cls, cols) ==
    IF cols = <<>> THEN { [existing |-> 0, queries |-> <<>>] }
    ELSE LET col == Head(cols)
             attr == getattr_key(obj, cls, col)
         IN  IF queries_column(cls, obj, col)
             THEN IF query_filter(rows, col, attr) # {}
                  THEN { [existing |-> i, queries |-> <<QueryOp(col, attr, i)>>] :
                           i \in query_filter(rows, col, attr) }
                  ELSE { [existing |-> r.existing,
                          queries |-> <<QueryOp(col, attr, 0)>> \o r.queries] :
                           r \in scan(rows, obj, cls, Tail(cols)) }
             ELSE scan(rows, obj, cls, Tail(cols))

\* SQLAlchemyModelFactory.find_existing.
find_existing(rows, obj, cls) ==
    scan(rows, obj, cls, Flatten(unique_constraints(cls)))

\* A faulty variant of update_existing: a falsy new value overwrites too.
update_existing_Full(obj, existing) ==
    [ k \in DOMAIN existing |->
        IF k \in DOMAIN attr_dict(existing) /\ getattr(obj, k) # existing[k]
        THEN getattr(obj, k) ELSE existing[k] ]

\* SQLAlchemyModelFactory.update_existing: existing's attributes afterwards.
update_existing(obj, existing) ==
    [ k \in DOMAIN existing |->
        IF /\ k \in DOMAIN attr_dict(existing)
           /\ Truthy(getattr(obj, k))
           /\ getattr(obj, k) # existing[k]
        THEN getattr(obj, k) ELSE existing[k] ]

\* ------------------------------------------------------------ _create

\* model_class(*args, **kwargs): the new instance's __dict__.  Its
\* _sa_instance_state is its own, equal to no row's.
model_class(args, rows) ==
    [ k \in Attrs |-> IF k = SA_STATE THEN Len(rows) + 1 ELSE args[k] ]

\* What the last call on a session returned, as `x = session.merge(..)` reads it.
result_of(s) == s.ops[Len(s.ops)].res

\* How a call ends: what it raised (None: it returned ret), the session
\* afterwards, the row find_existing gave (0: None or not asked) and the row
\* that obj became (0: obj is not in the session).  An error of a session
\* call is not caught: it is what the call raises.
Outcome(raised, ret, s, existing, attached) ==
    IF s.error # None
    THEN [raised |-> s.error, ret |-> NoneRef, ops |-> s.ops, store |-> s.store,
          existing |-> existing, attached |-> 0]
    ELSE [raised |-> raised, ret |-> ret, ops |-> s.ops, store |-> s.store,
          existing |-> existing, attached |-> attached]

\* A faulty variant of the override below: force_flush is ignored.
session_persistence_NoForce(m) == m.sqlalchemy_session_persistence

\* _create, lines 119-121.
session_persistence(m) ==
    IF m.force_flush THEN SESSION_PERSISTENCE_FLUSH
    ELSE m.sqlalchemy_session_persistence

\* A faulty variant of the test below: a missing session is not noticed.
session_is_None_Never(m) == FALSE

\* _create, line 124.
session_is_None(m) == m.sqlalchemy_session = None

\* A faulty variant of the merge branch: commit comes first.
create_merge_CommitFirst(s, obj) ==
    LET s1 == session_commit(s)
        s2 == session_merge_new(s1, obj)
    IN  { Outcome(None, result_of(s2), s2, 0, 0) }

\* _create, lines 127-129.
create_merge(s, obj) ==
    LET s1 == session_merge_new(s, obj)
        s2 == session_commit(s1)
    IN  { Outcome(None, result_of(s1), s2, 0, 0) }

\* The session after find_existing ended as r.
after_lookup(s, r) ==
    Session(s.store, s.ops \o r.queries, s.begin, s.schema, None)

\* _create, lines 134-138: the dedup hit of mode 'check'.
check_hit(s, obj, existing, update) ==
    IF update
    THEN LET s1 == Session([s.store EXCEPT ![existing] =
                                update_existing(obj, s.store[existing])],
                           s.ops, s.begin, s.schema, None)
             s2 == session_merge_row(s1, existing)
             s3 == session_flush(s2)
         IN  Outcome(None, result_of(s2), s3, existing, 0)
    ELSE Outcome(None, RowRef(existing), s, existing, 0)

\* A faulty variant of the branch below: sqlalchemy_update_existing is taken as set.
create_check_AlwaysUpdate(s, obj, cls, update) ==
    { IF r.existing # 0
      THEN check_hit(after_lookup(s, r), obj, r.existing, TRUE)
      ELSE LET s1 == session_merge_new(after_lookup(s, r), obj)
               s2 == session_flush(s1)
           IN  Outcome(None, result_of(s1), s2, 0, 0)
      : r \in find_existing(s.store, obj, cls) }

\* _create, lines 132-140.
create_check(s, obj, cls, update) ==
    { IF r.existing # 0
      THEN check_hit(after_lookup(s, r), obj, r.existing, update)
      ELSE LET s1 == session_merge_new(after_lookup(s, r), obj)
               s2 == session_flush(s1)
           IN  Outcome(None, result_of(s1), s2, 0, 0)
      : r \in find_existing(s.store, obj, cls) }

\* A faulty variant of the branch below: the hit does not return, the call goes on
\* to add and commit the new instance.
create_get_NoReturn(s, obj, cls) ==
    { LET s0 == after_lookup(s, r)
          s1 == IF r.existing # 0 THEN session_merge_row(s0, r.existing) ELSE s0
          s2 == session_add(s1, obj)
          s3 == session_commit(s2)
      IN  Outcome(None, ObjRef, s3, r.existing, Len(s3.store))
      : r \in find_existing(s.store, obj, cls) }

\* _create, lines 142-148.
create_get(s, obj, cls) ==
    { IF r.existing # 0
      THEN LET s1 == session_merge_row(after_lookup(s, r), r.existing)
           IN  Outcome(None, RowRef(r.existing), s1, r.existing, 0)
      ELSE LET s1 == session_add(after_lookup(s, r), obj)
               s2 == session_commit(s1)
           IN  Outcome(None, ObjRef, s2, 0, Len(s2.store))
      : r \in find_existing(s.store, obj, cls) }

\* A faulty variant of the add branch: the instance is flushed too.
create_add_Flush(s, obj) ==
    LET s1 == session_add(s, obj)
        s2 == session_flush(s1)
    IN  { Outcome(None, ObjRef, s2, 0, Len(s2.store)) }

\* _create, lines 153-154.
create_add(s, obj) ==
    LET s1 == session_add(s, obj)
    IN  { Outcome(None, ObjRef, s1, 0, Len(s1.store)) }

\* SQLAlchemyModelFactory._create under the options m, for the model class
\* cls, on a session holding rows, with the constructor arguments args:
\* every way the call can end.
_create(m, cls, rows, args) ==
    LET mode == session_persistence(m)
        obj == model_class(args, rows)
        s == NewSession(rows, cls)
    IN  IF session_is_None(m)
        THEN { Outcome("RuntimeError", NoneRef, s, 0, 0) }
        ELSE IF mode = SESSION_PERSISTENCE_MERGE
        THEN create_merge(s, obj)
        ELSE IF mode \in {"check", SESSION_PERSISTENCE_CHECK_AND_MERGE}
        THEN create_check(s, obj, cls, m.sqlalchemy_update_existing)
        ELSE IF mode = SESSION_PERSISTENCE_GET_OR_ADD
        THEN create_get(s, obj, cls)
        ELSE IF mode = SESSION_PERSISTENCE_FLUSH
        THEN { Outcome(None, ObjRef, session_flush(s), 0, 0) }
        ELSE IF mode = SESSION_PERSISTENCE_COMMIT
        THEN { Outcome(None, ObjRef, session_commit(s), 0, 0) }
        ELSE IF mode = SESSION_PERSISTENCE_ADD
        THEN create_add(s, obj)
        ELSE { Outcome(None, ObjRef, s, 0, 0) }

\* ------------------------------------------------------------ the system

NoError == [error |-> None, meta |-> None, allowed |-> <<>>, got |-> None]

NoCall ==
    [called |-> FALSE, obj |-> [k \in Attrs |-> 0], raised |-> None,
     ret |-> NoneRef, ops |-> <<>>, existing |-> 0, attached |-> 0]

\* What a session may hold when the factory is given it: nothing, or one row.
InitialStores ==
    {<<>>} \cup { <<model_class(a, <<>>)>> : a \in Args }

Init ==
    /\ decl \in Declarations
    /\ meta = [status |-> "pending", error |-> NoError, warned |-> FALSE]
    /\ model_cls \in ModelClasses
    /\ store \in InitialStores
    /\ last = NoCall

\* The class statement of the factory: each option's checker runs on the
\* declared value; a checker that raises ends the statement, and the class
\* does not come to exist.
DefineFactory ==
    /\ meta.status = "pending"
    /\ LET e == _check_sqlalchemy_session_persistence(
                    "Factory", decl.sqlalchemy_session_persistence)
       IN  meta' = IF e.error # None
                   THEN [status |-> "error", error |-> e, warned |-> FALSE]
                   ELSE [status |-> "ok", error |-> NoError,
                         warned |-> _check_force_flush("Factory", decl.force_flush)]
    /\ UNCHANGED <<decl, model_cls, store, last>>

\* One call of _create on the defined factory.
Create(args) ==
    /\ meta.status = "ok"
    /\ \E out \in _create(decl, model_cls, store, args) :
         /\ Len(out.store) <= MaxRows
         /\ store' = out.store
         /\ last' = [called |-> TRUE, obj |-> model_class(args, store),
                     raised |-> out.raised, ret |-> out.ret, ops |-> out.ops,
                     existing |-> out.existing, attached |-> out.attached]
    /\ UNCHANGED <<decl, meta, model_cls>>

Next ==
    \/ DefineFactory
    \/ \E args \in Args : Create(args)

Spec == Init /\ [][Next]_vars

\* The behaviours of a factory in mode 'get' on a session that starts empty:
\* every row the session comes to hold was created by a call.
InitGet ==
    /\ Init
    /\ decl.sqlalchemy_session_persistence = SESSION_PERSISTENCE_GET_OR_ADD
    /\ ~decl.force_flush
    /\ decl.sqlalchemy_session # None
    /\ store = <<>>

SpecGet == InitGet /\ [][Next]_vars

\* ------------------------------------------------------------ vocabulary

\* The names of the logged calls, in order.
OpNames(ops) == [ i \in 1..Len(ops) |-> ops[i].op ]

Calls(ops, name) == { i \in 1..Len(ops) : ops[i].op = name }

\* The columns of the unique constraints the schema declares.
UniqueCols(cls) ==
    { c \in Cols : \E i \in 1..Len(cls.declared) :
        /\ cls.declared[i].kind = "UniqueConstraint"
        /\ \E j \in 1..Len(cls.declared[i].columns) : cls.declared[i].columns[j] = c }

\* Some row equals the candidate in a unique-constraint column.
RowMatches(rows, obj, cls) ==
    \E c \in UniqueCols(cls) : \E i \in 1..Len(rows) : rows[i][c] = obj[c]

\* The unique-constraint columns the lookup can ask about: the candidate's
\* value is non-empty and the class has the queryable attribute.
AskedCols(obj, cls) ==
    { c \in UniqueCols(cls) : obj[c] # 0 /\ c \in cls.attributes }

\* Some row equals the candidate in a column the lookup can ask about.
HitPossible(rows, obj, cls) ==
    \E c \in AskedCols(obj, cls) : \E i \in 1..Len(rows) : rows[i][c] = obj[c]

\* The last call ran with a session, without force_flush, in this mode.
CallIn(mode) ==
    /\ last.called
    /\ decl.sqlalchemy_session # None
    /\ ~decl.force_flush
    /\ decl.sqlalchemy_session_persistence = mode

Min(S) == CHOOSE x \in S : \A y \in S : x <= y

\* ------------------------------------------------------------ C1

\* C1, as stated: in mode 'get', whenever some row of the session equals the
\* candidate in a unique-constraint column, the call returns such a row, an
\* object the session already held, and calls neither add nor commit.
C1_AnyMatchingRow ==
    [][ (CallIn(SESSION_PERSISTENCE_GET_OR_ADD)' /\ RowMatches(store, last'.obj, model_cls))
        => /\ last'.ret.kind = "row"
           /\ last'.ret.idx \in 1..Len(store)
           /\ \E c \in UniqueCols(model_cls) :
                store[last'.ret.idx][c] = last'.obj[c]
           /\ Calls(last'.ops, "add") = {}
           /\ Calls(last'.ops, "commit") = {} ]_vars

\* C1, amended: in mode 'get', whenever some row equals the candidate in a
\* unique-constraint column where the candidate's value is non-empty and the
\* class has the queryable attribute, the call returns such a row, the very
\* object the session held (the one the lookup gave, which is also what
\* merge returns), calls neither add nor commit and leaves the rows alone.
C1_GetReturnsExisting ==
    [][ (CallIn(SESSION_PERSISTENCE_GET_OR_ADD)' /\ HitPossible(store, last'.obj, model_cls))
        => /\ last'.raised = None
           /\ last'.ret.kind = "row"
           /\ last'.ret.idx \in 1..Len(store)
           /\ last'.ret = RowRef(last'.existing)
           /\ \E c \in AskedCols(last'.obj, model_cls) :
                store[last'.ret.idx][c] = last'.obj[c]
           /\ Calls(last'.ops, "add") = {}
           /\ Calls(last'.ops, "commit") = {}
           /\ last'.attached = 0
           /\ store' = store ]_vars

\* A call in mode 'get' returned a row the session held, whose name is not
\* the candidate's.
C1_Witness ==
    /\ CallIn(SESSION_PERSISTENCE_GET_OR_ADD)
    /\ last.existing # 0
    /\ last.ret = RowRef(last.existing)
    /\ store[last.existing]["name"] # last.obj["name"]
    /\ Calls(last.ops, "merge") # {}

\* ------------------------------------------------------------ C2

\* C2, as stated: over calls in mode 'get' on one session, a call whose
\* candidate matches no row adds the instance, commits and returns it; a call
\* whose candidate has a non-empty value in a unique column that a row
\* already has returns the first row created with that value and changes
\* nothing; and no two rows ever share a non-empty value of a unique column.
C2_FirstRowOfThatValue ==
    [][ CallIn(SESSION_PERSISTENCE_GET_OR_ADD)'
        => /\ ~RowMatches(store, last'.obj, model_cls)
                => /\ last'.ret = ObjRef
                   /\ store' = Append(store, last'.obj)
                   /\ Len(last'.ops) >= 2
                   /\ SubSeq(OpNames(last'.ops), Len(last'.ops) - 1, Len(last'.ops))
                        = <<"add", "commit">>
           /\ \A c \in UniqueCols(model_cls) :
                (last'.obj[c] # 0 /\ query_filter(store, c, last'.obj[c]) # {})
                => /\ last'.ret = RowRef(Min(query_filter(store, c, last'.obj[c])))
                   /\ store' = store
           /\ \A c \in UniqueCols(model_cls) : \A i, j \in 1..Len(store') :
                (i # j /\ store'[i][c] # 0) => store'[i][c] # store'[j][c] ]_vars

\* C2, amended: over calls in mode 'get' on one session, a call whose
\* candidate equals no row in any unique column that the lookup can ask about
\* (non-empty value, queryable attribute) makes its queries, adds the
\* instance and commits, and returns the instance unless the database
\* refuses the commit, which it does not when no row equals the candidate in
\* any unique column at all; any other call returns a row created by an
\* earlier call that equals the candidate in such a column (with a single
\* such column: the one row created with that value), leaves every row as it
\* was and adds nothing; and no two rows ever share a non-empty value of a
\* unique column that has the queryable attribute.
C2_GetOrAdd ==
    [][ CallIn(SESSION_PERSISTENCE_GET_OR_ADD)'
        => /\ ~HitPossible(store, last'.obj, model_cls)
                => /\ Len(last'.ops) >= 2
                   /\ SubSeq(OpNames(last'.ops), Len(last'.ops) - 1, Len(last'.ops))
                        = <<"add", "commit">>
                   /\ \A i \in 1..(Len(last'.ops) - 2) : last'.ops[i].op = "query"
                   /\ last'.raised \in {None, "IntegrityError"}
                   /\ ~RowMatches(store, last'.obj, model_cls) => last'.raised = None
                   /\ last'.raised = None
                        => /\ last'.ret = ObjRef
                           /\ store' = Append(store, last'.obj)
                           /\ last'.attached = Len(store')
                   /\ last'.raised # None => store' = store
           /\ HitPossible(store, last'.obj, model_cls)
                => /\ last'.raised = None
                   /\ last'.ret.kind = "row"
                   /\ last'.ret.idx \in 1..Len(store)
                   /\ \E c \in AskedCols(last'.obj, model_cls) :
                        /\ store[last'.ret.idx][c] = last'.obj[c]
                        /\ Cardinality(AskedCols(last'.obj, model_cls)) = 1
                             => query_filter(store, c, last'.obj[c]) = {last'.ret.idx}
                   /\ Calls(last'.ops, "add") = {}
                   /\ store' = store
           /\ \A c \in UniqueCols(model_cls) \cap model_cls.attributes :
                \A i, j \in 1..Len(store') :
                    (i # j /\ store'[i][c] # 0) => store'[i][c] # store'[j][c] ]_vars

\* In mode 'get' a first call created a row and a later call, with the same
\* email and another name, was given that row back with its name unchanged.
C2_Witness ==
    /\ CallIn(SESSION_PERSISTENCE_GET_OR_ADD)
    /\ Len(store) >= 1
    /\ last.existing # 0
    /\ last.ret = RowRef(last.existing)
    /\ last.obj["email"] # 0
    /\ store[last.existing]["email"] = last.obj["email"]
    /\ store[last.existing]["name"] # last.obj["name"]
    /\ last.attached = 0

\* ------------------------------------------------------------ C3

\* The last call ran in mode 'check' with sqlalchemy_update_existing = u.
CheckCall(u) ==
    /\ CallIn(SESSION_PERSISTENCE_CHECK_AND_MERGE)
    /\ decl.sqlalchemy_update_existing = u

\* C3: in mode 'check' without sqlalchemy_update_existing, when a row equals
\* the candidate in a column the lookup can ask about, the call returns such
\* a row, every row keeps every field, and the only calls made on the session
\* are the lookup's queries: no merge, flush, add or commit; the new instance
\* does not enter the session.
C3_CheckReturnsUnchanged ==
    [][ (CheckCall(FALSE)' /\ HitPossible(store, last'.obj, model_cls))
        => /\ last'.raised = None
           /\ last'.existing \in 1..Len(store)
           /\ last'.ret = RowRef(last'.existing)
           /\ \E c \in AskedCols(last'.obj, model_cls) :
                store[last'.existing][c] = last'.obj[c]
           /\ store' = store
           /\ \A i \in 1..Len(last'.ops) : last'.ops[i].op = "query"
           /\ last'.attached = 0 ]_vars

\* A call in mode 'check' without update was given a row whose name is not
\* the candidate's.
C3_Witness ==
    /\ CheckCall(FALSE)
    /\ last.existing # 0
    /\ last.ret = RowRef(last.existing)
    /\ store[last.existing]["name"] # last.obj["name"]
    /\ last.obj["name"] # 0

\* ------------------------------------------------------------ C4

\* C4: in mode 'check' with sqlalchemy_update_existing, when the lookup gives
\* a row, every attribute of that row that is not internal ends as the new
\* instance's value where that value is truthy and differs from the old one,
\* and as the old value otherwise; the internal attribute and the other rows
\* stay; after the queries the session is asked to merge that row and then to
\* flush, and the call returns what merge returned, unless the database
\* refuses the flush.
C4_UpdateExisting ==
    [][ (CheckCall(TRUE)' /\ HitPossible(store, last'.obj, model_cls))
        => LET e == last'.existing
               obj == last'.obj
               n == Len(last'.ops)
               expected == [ k \in Attrs |->
                               IF k # SA_STATE /\ obj[k] # 0 /\ obj[k] # store[e][k]
                               THEN obj[k] ELSE store[e][k] ]
           IN  /\ e \in 1..Len(store)
               /\ \E c \in AskedCols(obj, model_cls) : store[e][c] = obj[c]
               /\ n >= 2
               /\ last'.ops[n - 1] = Op("merge", "", 0, RowRef(e), RowRef(e))
               /\ last'.ops[n].op = "flush"
               /\ \A i \in 1..(n - 2) : last'.ops[i].op = "query"
               /\ last'.raised \in {None, "IntegrityError"}
               /\ last'.raised = None
                    => /\ store' = [store EXCEPT ![e] = expected]
                       /\ last'.ret = last'.ops[n - 1].res
               /\ last'.raised # None
                    => /\ store' = store
                       /\ ~IntegrityOK([store EXCEPT ![e] = expected],
                                       model_cls.declared) ]_vars

\* A call in mode 'check' with update was given a row: the candidate's
\* truthy name is now the row's, and its empty email did not overwrite the
\* row's email.
C4_Witness ==
    /\ CheckCall(TRUE)
    /\ last.existing # 0
    /\ last.raised = None
    /\ last.ret = RowRef(last.existing)
    /\ last.obj["email"] = 0
    /\ store[last.existing]["email"] # 0
    /\ last.obj["name"] # 0
    /\ store[last.existing]["name"] = last.obj["name"]
    /\ OpNames(last.ops)[Len(last.ops)] = "flush"

\* ------------------------------------------------------------ C5

\* C5: in mode 'merge' every call makes exactly two calls on the session,
\* merge of the new instance and then commit, no query among them, whatever
\* the rows; what it returns is what merge returned.
C5_MergeThenCommit ==
    CallIn(SESSION_PERSISTENCE_MERGE)
    => /\ OpNames(last.ops) = <<"merge", "commit">>
       /\ last.ops[1].arg = ObjRef
       /\ last.raised \in {None, "IntegrityError"}
       /\ last.raised = None
            => /\ last.ret = last.ops[1].res
               /\ last.ret = RowRef(Len(store))
               /\ store[Len(store)] = last.obj

\* A call in mode 'merge' returned while another row has the candidate's
\* non-empty email.
C5_Witness ==
    /\ CallIn(SESSION_PERSISTENCE_MERGE)
    /\ last.raised = None
    /\ last.obj["email"] # 0
    /\ \E i \in 1..(Len(store) - 1) : store[i]["email"] = last.obj["email"]

\* ------------------------------------------------------------ C6

\* C6: in mode 'add' without force_flush a call makes one call on the
\* session, add of the new instance, and returns that instance, which is now
\* the session's last row.
C6_AddOnly ==
    CallIn(SESSION_PERSISTENCE_ADD)
    => /\ last.ops = <<Op("add", "", 0, ObjRef, NoneRef)>>
       /\ last.raised = None
       /\ last.ret = ObjRef
       /\ last.attached = Len(store)
       /\ store[Len(store)] = last.obj

\* A call in mode 'add' added an instance to a session that held a row with
\* the same email.
C6_Witness ==
    /\ CallIn(SESSION_PERSISTENCE_ADD)
    /\ Len(store) = 2
    /\ store[1]["email"] = store[2]["email"]
    /\ last.attached = 2

\* ------------------------------------------------------------ C7

\* C7: without a session a call raises RuntimeError, whatever the mode and
\* force_flush, and no call has been made on any session.
C7_NoSession ==
    (last.called /\ decl.sqlalchemy_session = None)
    => /\ last.raised = "RuntimeError"
       /\ last.ops = <<>>
       /\ last.ret = NoneRef
       /\ last.attached = 0

\* A call without a session, in mode 'merge' with force_flush set, raised.
C7_Witness ==
    /\ last.called
    /\ decl.sqlalchemy_session = None
    /\ decl.sqlalchemy_session_persistence = SESSION_PERSISTENCE_MERGE
    /\ decl.force_flush
    /\ last.raised = "RuntimeError"

\* ------------------------------------------------------------ C8

\* The options with force_flush unset and mode 'flush'.
AsFlush(m) ==
    [m EXCEPT !.force_flush = FALSE,
              !.sqlalchemy_session_persistence = SESSION_PERSISTENCE_FLUSH]

\* The constructor arguments an instance was built from.
ArgsOf(obj) == [ c \in Cols |-> obj[c] ]

\* The outcome the last call recorded.
LastOutcome ==
    [raised |-> last.raised, ret |-> last.ret, ops |-> last.ops,
     store |-> store, existing |-> last.existing, attached |-> last.attached]

\* C8: with force_flush set, whatever the configured mode and the rows, a
\* call ends as the same call would under mode 'flush' without force_flush;
\* with a session that is one flush and nothing else, the rows stay and the
\* instance is returned as constructed.
C8_ForceFlush ==
    [][ (last'.called /\ decl.force_flush)
        => /\ LastOutcome' \in _create(AsFlush(decl), model_cls, store, ArgsOf(last'.obj))
           /\ decl.sqlalchemy_session # None
                => /\ OpNames(last'.ops) = <<"flush">>
                   /\ last'.raised = None
                   /\ last'.ret = ObjRef
                   /\ last'.attached = 0
                   /\ store' = store ]_vars

\* A call with force_flush set and mode 'get' configured, on a session that
\* holds a row with the candidate's email, only flushed.
C8_Witness ==
    /\ last.called
    /\ decl.force_flush
    /\ decl.sqlalchemy_session # None
    /\ decl.sqlalchemy_session_persistence = SESSION_PERSISTENCE_GET_OR_ADD
    /\ Len(store) = 1
    /\ store[1]["email"] = last.obj["email"]
    /\ last.obj["email"] # 0
    /\ OpNames(last.ops) = <<"flush">>

\* ------------------------------------------------------------ C9

AcceptedPersistence ==
    { None, "commit", "flush", "merge", "check", "get", "add" }

\* C9: the class statement succeeds exactly when the declared
\* sqlalchemy_session_persistence is None or one of the six mode strings;
\* otherwise it raises TypeError naming the class and the allowed values, no
\* call of _create ever runs and the session is left as it was given.
C9_PersistenceChecked ==
    /\ meta.status # "pending"
         => (meta.status = "ok"
               <=> decl.sqlalchemy_session_persistence \in AcceptedPersistence)
    /\ meta.status = "error"
         => /\ meta.error.error = "TypeError"
            /\ meta.error.meta = "Factory"
            /\ { meta.error.allowed[i] : i \in 1..Len(meta.error.allowed) }
                 = AcceptedPersistence
            /\ meta.error.got = decl.sqlalchemy_session_persistence
            /\ ~last.called
            /\ store \in InitialStores
    /\ last.called => decl.sqlalchemy_session_persistence \in AcceptedPersistence

\* The class statement of a factory declaring 'Commit' raised TypeError.
C9_Witness ==
    /\ meta.status = "error"
    /\ decl.sqlalchemy_session_persistence = "Commit"
    /\ meta.error.error = "TypeError"

\* ------------------------------------------------------------ C10

\* The columns of the unique constraints in the order the schema declares
\* them.
DeclaredCols(cls) ==
    Flatten(SelectSeq(cls.declared, LAMBDA c : c.kind = "UniqueConstraint"))

\* The places in a column sequence whose query would hit.
Hits(rows, obj, cls, cols) ==
    { j \in 1..Len(cols) :
        /\ cols[j] \in AskedCols(obj, cls)
        /\ query_filter(rows, cols[j], obj[cols[j]]) # {} }

\* The last call ran the lookup.
LookupCall ==
    \/ CallIn(SESSION_PERSISTENCE_GET_OR_ADD)
    \/ CallIn(SESSION_PERSISTENCE_CHECK_AND_MERGE)

\* In the step, the lookup went through cols in order: it queried each
\* column for which the candidate's value is non-empty and the class has the
\* attribute, stopped at the first query that hit and gave a row of it, and
\* gave no row exactly when no query hit.
FirstHitWins(cols) ==
    LET obj == last'.obj
        hits == Hits(store, obj, model_cls, cols)
        asked == IF hits = {} THEN Len(cols) ELSE Min(hits)
        queried == SelectSeq(SubSeq(cols, 1, asked),
                             LAMBDA c : c \in AskedCols(obj, model_cls))
        queries == SelectSeq(last'.ops, LAMBDA o : o.op = "query")
    IN  /\ (last'.existing = 0) <=> (hits = {})
        /\ hits # {}
             => last'.existing \in
                  query_filter(store, cols[Min(hits)], obj[cols[Min(hits)]])
        /\ [ i \in 1..Len(queries) |-> queries[i].col ] = queried

\* C10: the lookup goes through the unique constraints in the order the
\* schema declares them and through each one's columns in order; it queries
\* each column for which the candidate's value is non-empty and the class has
\* the attribute, returns a row of the first query that hits and consults
\* nothing after it, and returns no row exactly when no such query hits.
C10_DeclarationOrder ==
    [][ LookupCall' => FirstHitWins(DeclaredCols(model_cls)) ]_vars

\* What the lookup does keep: the same, in the order in which the set
\* Table.constraints happens to yield the unique constraints.
LookupInIterationOrder ==
    [][ LookupCall' => FirstHitWins(Flatten(unique_constraints(model_cls))) ]_vars

====
